---- MODULE Spec2Model ----
(***************************************************************************)
(* A model of the generic red-black tree of RBTree.c.                      *)
(*                                                                         *)
(* Payloads are the integers 1..MaxKey and the comparator is integer       *)
(* comparison.  A Node* is an address: Null is 0, and malloc hands out the *)
(* cell numbered like the payload when that cell is free and the spare     *)
(* cell otherwise (the only node that ever lives in the spare cell is the  *)
(* one insertNode frees again when it meets an equal payload).  malloc is  *)
(* taken to succeed.                                                       *)
(*                                                                         *)
(* Every C function is an operator from a machine state t (the tree, the   *)
(* heap, the locals of the running call and the log of its destructor      *)
(* calls) to the machine state after the function returns.  The statements *)
(* of a function are local operators on the machine state, composed in the *)
(* order the function runs them.  A Node** is a location: a local variable *)
(* of deleteFromRBTree or a link field of a heap cell, so that the         *)
(* aliasing of solveDB's parentP / childP / siblingP is kept.              *)
(*                                                                         *)
(* The machine state also keeps two records of the running call that the   *)
(* C program does not have: calls, the calls of the internal functions in  *)
(* the order they were entered, each with its arguments and the tree it    *)
(* found (and, for a function that restructures, the tree it left), and    *)
(* compared, the pairs of payloads the comparator was called with, and     *)
(* seen, the payloads a traversal has handed to its callback.              *)
(*                                                                         *)
(* The functions that restructure the tree are also given one assignment   *)
(* to a link at a time (connectNodesSteps, rotateSteps, switchNodesSteps), *)
(* for what holds between two assignments.                                 *)
(***************************************************************************)
EXTENDS Integers, Sequences, FiniteSets

\* ------------------------------------------------------------------ bounds
MaxKey == 10

\* the payloads of the client that fills the tree from sorted input
MaxDeep == 14

\* --------------------------------------------------------------- constants
NO_ITEMS == 0
FAILURE == 0
SUCCESS == 1
LEFT == 0 - 1
EQUAL == 0
RIGHT == 1
RED == "RED"
BLACK == "BLACK"

Null == 0
Keys == 1..MaxKey
Spare == MaxKey + 1
\* the heap has a cell for every payload of the largest client
Addr == 1..(IF MaxDeep > Spare THEN MaxDeep ELSE Spare)

VARIABLES
    root,     \* tree->root
    size,     \* tree->size
    heap,     \* the Node cells, by address
    op,       \* the public operation that ran last
    ret,      \* its return value
    owned,    \* the payloads inserted with success and not yet destructed
    fault,    \* a call dereferenced NULL, or freed a cell or a payload twice
    tally     \* what the client keeps of its calls: the round-trip and the
              \* sorted-input client what they have inserted and deleted,
              \* the traversing clients what the last traversal gave them

vars == <<root, size, heap, op, ret, owned, fault, tally>>

\* ------------------------------------------------------------ machine state
FreeCell ==
    [alloc |-> FALSE, parent |-> Null, left |-> Null, right |-> Null,
     color |-> BLACK, data |-> Null]

\* a slip: a new node starts RED
NewCellRed(d) ==
    [alloc |-> TRUE, parent |-> Null, left |-> Null, right |-> Null,
     color |-> RED, data |-> d]

NewCell(d) ==
    [alloc |-> TRUE, parent |-> Null, left |-> Null, right |-> Null,
     color |-> BLACK, data |-> d]

\* the user's comparator: < 0, 0 or > 0
compFunc(a, b) == a - b

\* a->f = v
SetF(t, a, f, v) ==
    IF a = Null THEN [t EXCEPT !.fault = TRUE]
    ELSE [t EXCEPT !.heap[a][f] = v]

\* a->f
Get(t, a, f) == IF a = Null THEN FreeCell[f] ELSE t.heap[a][f]

\* a Node** : a local of deleteFromRBTree, or a link field of a cell
Local(name) == [kind |-> name, at |-> Null, f |-> "none"]
Field(a, fld) == [kind |-> "field", at |-> a, f |-> fld]

Deref(t, loc) ==
    IF loc.kind = "field" THEN Get(t, loc.at, loc.f) ELSE t[loc.kind]

Store(t, loc, v) ==
    IF loc.kind = "field" THEN SetF(t, loc.at, loc.f, v)
    ELSE [t EXCEPT ![loc.kind] = v]

\* malloc returns some free cell: the one numbered like the payload when
\* there is such a cell and it is free, else the spare one, else the lowest
Malloc(t, d) ==
    IF d \in Keys /\ ~t.heap[d].alloc THEN d
    ELSE IF ~t.heap[Spare].alloc THEN Spare
    ELSE IF \E a \in Addr : ~t.heap[a].alloc
    THEN CHOOSE a \in Addr :
             ~t.heap[a].alloc /\ \A b \in Addr : ~t.heap[b].alloc => a <= b
    ELSE Null

\* the tree as a function finds or leaves it
Snap(t) == [root |-> t.root, heap |-> t.heap]

\* the call described by rec is added to the record of calls
Logged(t, rec) == [t EXCEPT !.calls = Append(@, rec)]

\* no call of a public operation enters this many internal functions; a
\* recursion that has not ended by then is cut
MaxCalls == 4 * Spare

\* ------------------------------------------------------ structural primitives
\* a slip: the sides of the parent are mixed up
connectNodeWrongSide(t, node, parent, side) ==
    LET Link(s) ==
            IF parent = Null THEN [s EXCEPT !.root = node]
            ELSE IF side = RIGHT THEN SetF(s, parent, "left", node)
            ELSE SetF(s, parent, "right", node)
    IN  Link(IF node # Null THEN SetF(t, node, "parent", parent) ELSE t)

connectNode(t, node, parent, side) ==
    LET Link(s) ==
            IF parent = Null THEN [s EXCEPT !.root = node]
            ELSE IF side = LEFT THEN SetF(s, parent, "left", node)
            ELSE SetF(s, parent, "right", node)
    IN  Link(IF node # Null THEN SetF(t, node, "parent", parent) ELSE t)

getSide(t, child) ==
    IF child = Null THEN FAILURE
    ELSE IF Get(t, child, "parent") = Null THEN FAILURE
    ELSE IF child = Get(t, Get(t, child, "parent"), "left") THEN LEFT
    ELSE RIGHT

\* a slip: lines 403-406 are missing, the child is not told its new parent
connectNodesNoBackLink(t, parent, child, side) ==
    IF parent = Null THEN [t EXCEPT !.root = child]
    ELSE IF side = LEFT THEN SetF(t, parent, "left", child)
    ELSE SetF(t, parent, "right", child)

connectNodes(t, parent, child, side) ==
    LET Back(s) ==
            IF child # Null THEN SetF(s, child, "parent", parent) ELSE s
    IN  Back(IF parent = Null THEN [t EXCEPT !.root = child]
             ELSE IF side = LEFT THEN SetF(t, parent, "left", child)
             ELSE SetF(t, parent, "right", child))

\* a slip: parent is handed child's outer subtree instead of the inner one
rotateOuterSubtree(t, child, parent) ==
    LET childSide == getSide(t, child)
        gParent == Get(t, parent, "parent")
        Lift(s) ==
            IF gParent = Null
            THEN SetF([s EXCEPT !.root = child], child, "parent", Null)
            ELSE IF getSide(s, parent) = LEFT
            THEN SetF(SetF(s, child, "parent", gParent), gParent, "left", child)
            ELSE SetF(SetF(s, child, "parent", gParent), gParent, "right", child)
        Turn(s) ==
            IF childSide = LEFT
            THEN connectNodes(
                     connectNodes(s, parent, Get(s, child, "left"), LEFT),
                     child, parent, RIGHT)
            ELSE connectNodes(
                     connectNodes(s, parent, Get(s, child, "right"), RIGHT),
                     child, parent, LEFT)
    IN  IF child = Null \/ parent = Null THEN [t EXCEPT !.fault = TRUE]
        ELSE Turn(Lift(t))

\* a slip: the grandparent is not told that child has taken parent's place
rotateGrandparentUntold(t, child, parent) ==
    LET childSide == getSide(t, child)
        gParent == Get(t, parent, "parent")
        Lift(s) ==
            IF gParent = Null
            THEN SetF([s EXCEPT !.root = child], child, "parent", Null)
            ELSE SetF(s, child, "parent", gParent)
        Turn(s) ==
            IF childSide = LEFT
            THEN connectNodes(
                     connectNodes(s, parent, Get(s, child, "right"), LEFT),
                     child, parent, RIGHT)
            ELSE connectNodes(
                     connectNodes(s, parent, Get(s, child, "left"), RIGHT),
                     child, parent, LEFT)
        Note(s) ==
            Logged(s, [fn |-> "rotate", child |-> child, parent |-> parent,
                       pre |-> Snap(t), post |-> Snap(s)])
    IN  IF child = Null \/ parent = Null THEN [t EXCEPT !.fault = TRUE]
        ELSE Note(Turn(Lift(t)))

rotate(t, child, parent) ==
    LET childSide == getSide(t, child)
        gParent == Get(t, parent, "parent")
        \* lines 130-147: the grandparent, or the tree, takes child
        Lift(s) ==
            IF gParent = Null
            THEN SetF([s EXCEPT !.root = child], child, "parent", Null)
            ELSE IF getSide(s, parent) = LEFT
            THEN SetF(SetF(s, child, "parent", gParent), gParent, "left", child)
            ELSE SetF(SetF(s, child, "parent", gParent), gParent, "right", child)
        \* lines 148-157: parent takes child's inner subtree and goes below
        Turn(s) ==
            IF childSide = LEFT
            THEN connectNodes(
                     connectNodes(s, parent, Get(s, child, "right"), LEFT),
                     child, parent, RIGHT)
            ELSE connectNodes(
                     connectNodes(s, parent, Get(s, child, "left"), RIGHT),
                     child, parent, LEFT)
        Note(s) ==
            Logged(s, [fn |-> "rotate", child |-> child, parent |-> parent,
                       pre |-> Snap(t), post |-> Snap(s)])
    IN  IF child = Null \/ parent = Null THEN [t EXCEPT !.fault = TRUE]
        ELSE Note(Turn(Lift(t)))

\* ------------------------------------------------------------ insertion engine
\* a function returning a Color gives the machine state and the Color
\* a slip: the rotations are done, line 178's recoloring is not
updateColorBlackUncleNoRecolor(t, gParent, parent, node, parentSide) ==
    LET zigzag == getSide(t, node) # parentSide
        par == IF zigzag THEN node ELSE parent
        Straight(s) == rotate(s, par, gParent)
    IN  [t |-> Straight(IF zigzag THEN rotate(t, node, parent) ELSE t),
         color |-> IF node = par THEN BLACK ELSE RED]

\* a slip: the grandparent is not recolored
updateColorBlackUncleGrandparentKept(t, gParent, parent, node, parentSide) ==
    LET zigzag == getSide(t, node) # parentSide
        par == IF zigzag THEN node ELSE parent
        Straight(s) == SetF(rotate(s, par, gParent), par, "color", BLACK)
    IN  [t |-> Straight(IF zigzag THEN rotate(t, node, parent) ELSE t),
         color |-> IF node = par THEN BLACK ELSE RED]

updateColorBlackUncle(t, gParent, parent, node, parentSide) ==
    LET zigzag == getSide(t, node) # parentSide
        par == IF zigzag THEN node ELSE parent
        Straight(s) ==
            SetF(SetF(rotate(s, par, gParent), par, "color", BLACK),
                 gParent, "color", RED)
    IN  [t |-> Straight(IF zigzag THEN rotate(t, node, parent) ELSE t),
         color |-> IF node = par THEN BLACK ELSE RED]

RECURSIVE updateColors(_, _)
updateColors(t, node) ==
    LET parent == Get(t, node, "parent")
        gParent == Get(t, Get(t, node, "parent"), "parent")
        parentSide == getSide(t, Get(t, node, "parent"))
        uncle == IF parentSide = LEFT THEN Get(t, gParent, "right")
                 ELSE Get(t, gParent, "left")
        \* line 218: gParent->color = updateColors(tree, gParent)
        Paint(r) == [t |-> SetF(r.t, gParent, "color", r.color), color |-> RED]
        Body(u) ==
            IF parent = Null THEN [t |-> u, color |-> BLACK]
            ELSE IF Get(u, parent, "color") = BLACK
            THEN [t |-> u, color |-> RED]
            ELSE IF gParent = Null
            THEN [t |-> [u EXCEPT !.fault = TRUE], color |-> RED]
            ELSE IF uncle = Null \/ Get(u, uncle, "color") = BLACK
            THEN updateColorBlackUncle(u, gParent, parent, node, parentSide)
            ELSE Paint(updateColors(
                           SetF(SetF(u, parent, "color", BLACK),
                                uncle, "color", BLACK),
                           gParent))
    IN  IF Len(t.calls) >= MaxCalls
        THEN [t |-> [t EXCEPT !.cut = TRUE], color |-> RED]
        ELSE Body(Logged(t, [fn |-> "updateColors", node |-> node,
                             pre |-> Snap(t)]))

\* the while loop of insertNode, from curNode on; parent and side are the
\* locals as the loop has set them so far.  The machine state's ret is the
\* value insertNode returns.
RECURSIVE insertNodeLoop(_, _, _, _, _)
insertNodeLoop(t, newNode, curNode, parent, side) ==
    LET compRes == compFunc(Get(t, newNode, "data"), Get(t, curNode, "data"))
        Compared(u) ==
            [u EXCEPT !.compared =
                 Append(@, <<Get(t, newNode, "data"), Get(t, curNode, "data")>>)]
        Branch(u) ==
            IF compRes = EQUAL
            THEN [u EXCEPT !.heap[newNode] = FreeCell, !.ret = FAILURE]
            ELSE IF compRes < EQUAL
            THEN insertNodeLoop(u, newNode, Get(u, curNode, "left"),
                                curNode, LEFT)
            ELSE insertNodeLoop(u, newNode, Get(u, curNode, "right"),
                                curNode, RIGHT)
    IN  IF curNode = Null
        THEN [connectNode(t, newNode, parent, side) EXCEPT !.ret = SUCCESS]
        ELSE Branch(Compared(t))

\* the loop runs at least once (the caller has seen a root), so the values
\* parent and side start with are never read
insertNode(t, newNode) == insertNodeLoop(t, newNode, t.root, Null, FAILURE)

\* a slip: the value insertNode returns is not looked at
insertToRBTreeUnchecked(t, data) ==
    LET newNode == Malloc(t, data)
        Recolor(r) ==
            [SetF(r.t, newNode, "color", r.color)
                EXCEPT !.size = @ + 1, !.ret = SUCCESS]
        Fix(s) == Recolor(updateColors(s, newNode))
        Place(s) ==
            IF s.root = Null
            THEN [s EXCEPT !.root = newNode, !.size = @ + 1, !.ret = SUCCESS]
            ELSE Fix(insertNode(s, newNode))
    IN  IF t.tree = Null THEN [t EXCEPT !.ret = FAILURE]
        ELSE IF data = Null THEN [t EXCEPT !.ret = FAILURE]
        ELSE IF newNode = Null THEN [t EXCEPT !.ret = FAILURE]
        ELSE Place([t EXCEPT !.heap[newNode] = NewCell(data)])

\* a slip: the first node is not counted
insertToRBTreeFirstUncounted(t, data) ==
    LET newNode == Malloc(t, data)
        Recolor(r) ==
            [SetF(r.t, newNode, "color", r.color)
                EXCEPT !.size = @ + 1, !.ret = SUCCESS]
        Fix(s) ==
            IF s.ret = FAILURE THEN s ELSE Recolor(updateColors(s, newNode))
        Place(s) ==
            IF s.root = Null
            THEN [s EXCEPT !.root = newNode, !.ret = SUCCESS]
            ELSE Fix(insertNode(s, newNode))
    IN  IF t.tree = Null THEN [t EXCEPT !.ret = FAILURE]
        ELSE IF data = Null THEN [t EXCEPT !.ret = FAILURE]
        ELSE IF newNode = Null THEN [t EXCEPT !.ret = FAILURE]
        ELSE Place([t EXCEPT !.heap[newNode] = NewCell(data)])

insertToRBTree(t, data) ==
    LET newNode == Malloc(t, data)
        \* lines 290-292
        Recolor(r) ==
            [SetF(r.t, newNode, "color", r.color)
                EXCEPT !.size = @ + 1, !.ret = SUCCESS]
        \* lines 286-289
        Fix(s) ==
            IF s.ret = FAILURE THEN s ELSE Recolor(updateColors(s, newNode))
        \* lines 280-286
        Place(s) ==
            IF s.root = Null
            THEN [s EXCEPT !.root = newNode, !.size = @ + 1, !.ret = SUCCESS]
            ELSE Fix(insertNode(s, newNode))
    IN  IF t.tree = Null THEN [t EXCEPT !.ret = FAILURE]
        ELSE IF data = Null THEN [t EXCEPT !.ret = FAILURE]
        ELSE IF newNode = Null THEN [t EXCEPT !.ret = FAILURE]
        ELSE Place([t EXCEPT !.heap[newNode] = NewCell(data)])

\* ------------------------------------------------------------- traversal/query
\* a function returning a Node* gives the machine state and the Node*
RECURSIVE findNodeLoop(_, _, _)
findNodeLoop(t, data, curNode) ==
    LET compRes == compFunc(data, Get(t, curNode, "data"))
        Compared(u) ==
            [u EXCEPT !.compared = Append(@, <<data, Get(t, curNode, "data")>>)]
        Branch(u) ==
            IF compRes = EQUAL THEN [t |-> u, node |-> curNode]
            ELSE IF compRes < EQUAL
            THEN findNodeLoop(u, data, Get(u, curNode, "left"))
            ELSE findNodeLoop(u, data, Get(u, curNode, "right"))
    IN  IF curNode = Null THEN [t |-> t, node |-> Null]
        ELSE Branch(Compared(t))

findNode(t, data) == findNodeLoop(t, data, t.root)

\* the machine state's ret is the value RBTreeContains returns
RBTreeContains(t, data) ==
    LET Found(r) == [r.t EXCEPT !.ret = IF r.node # Null THEN 1 ELSE 0]
    IN  IF t.tree = Null THEN [t EXCEPT !.ret = FAILURE]
        ELSE Found(findNode(t, data))

\* a forEachFunc is called by its name; it gives the value it returns and
\* what it has made of args.  failOn is a caller's callback that reports
\* failure on the payloads in args.failing.
failOn(data, args) ==
    [ret |-> IF data \in args.failing THEN FAILURE ELSE SUCCESS, args |-> args]

\* strcat appends the word and returns its first argument, the caller's
\* buffer, so res is never NULL; the word a payload points at is written as
\* the payload
concatenate(word, pConcatenated) ==
    [ret |-> SUCCESS, args |-> [pConcatenated EXCEPT !.text = Append(@, word)]]

\* A Vector is its len, its array of coordinates and whether it holds one
\* (vector != NULL).  The payloads of a tree of Vectors point at these, listed
\* in the order of vectorCompare1By1.
Vectors == << <<0>>, <<0, 0>>, <<0, 1>>, <<1>>, <<1, 0>>, <<1, 1>>, <<2>> >>

VectorAt(p) == [len |-> Len(Vectors[p]), vector |-> Vectors[p], held |-> TRUE]

\* calloc(VECTOR_AMOUNT, sizeof(Vector)): len 0 and vector NULL
EmptyVector == [len |-> 0, vector |-> <<>>, held |-> FALSE]

\* the loop of vectorCompare1By1 from coordinate i on
RECURSIVE vectorCompareLoop(_, _, _, _, _)
vectorCompareLoop(vecA, vecB, i, len, shortVec) ==
    IF i > len THEN shortVec
    ELSE IF vecA.vector[i] < vecB.vector[i] THEN 0 - 1
    ELSE IF vecA.vector[i] > vecB.vector[i] THEN 1
    ELSE vectorCompareLoop(vecA, vecB, i + 1, len, shortVec)

vectorCompare1By1(vecA, vecB) ==
    IF vecA.len = vecB.len
    THEN vectorCompareLoop(vecA, vecB, 1, vecA.len, 0)
    ELSE IF vecA.len < vecB.len
    THEN vectorCompareLoop(vecA, vecB, 1, vecA.len, 0 - 1)
    ELSE vectorCompareLoop(vecA, vecB, 1, vecB.len, 1)

\* the sum of the squares of the first vecLen coordinates
RECURSIVE getNorm(_, _)
getNorm(vec, vecLen) ==
    IF vecLen = 0 THEN 0
    ELSE getNorm(vec, vecLen - 1) + vec.vector[vecLen] * vec.vector[vecLen]

\* pVector is a payload; pMaxVector is the Vector the caller allocated, and
\* realloc is taken to succeed
copyIfNormIsLarger(pVector, pMaxVector) ==
    LET pVec == VectorAt(pVector)
    IN  IF pVector = Null THEN [ret |-> FAILURE, args |-> pMaxVector]
        ELSE IF getNorm(pVec, pVec.len) <= getNorm(pMaxVector, pMaxVector.len)
        THEN [ret |-> SUCCESS, args |-> pMaxVector]
        ELSE [ret |-> SUCCESS,
              args |-> [len |-> pVec.len,
                        vector |-> [i \in 1..pVec.len |-> pVec.vector[i]],
                        held |-> TRUE]]

CallFunc(func, data, args) ==
    IF func = "concatenate" THEN concatenate(data, args)
    ELSE IF func = "copyIfNormIsLarger" THEN copyIfNormIsLarger(data, args)
    ELSE failOn(data, args)

\* a slip: the node is visited before its left subtree
RECURSIVE forEachNodePreOrder(_, _, _)
forEachNodePreOrder(t, node, func) ==
    LET Called(u, r) ==
            [u EXCEPT !.seen = Append(@, Get(u, node, "data")),
                      !.args = r.args, !.ret = r.ret]
        Visit(u) == Called(u, CallFunc(func, Get(u, node, "data"), u.args))
        Right(u) ==
            IF u.ret = FAILURE THEN u
            ELSE forEachNodePreOrder(u, Get(u, node, "right"), func)
        Left(u) ==
            IF u.ret = FAILURE THEN u
            ELSE forEachNodePreOrder(u, Get(u, node, "left"), func)
    IN  IF node = Null THEN [t EXCEPT !.ret = SUCCESS]
        ELSE Right(Left(Visit(t)))

\* the machine state's ret is the value forEachNode returns
RECURSIVE forEachNode(_, _, _)
forEachNode(t, node, func) ==
    LET \* line 669: func(node->data, args)
        Called(u, r) ==
            [u EXCEPT !.seen = Append(@, Get(u, node, "data")),
                      !.args = r.args, !.ret = r.ret]
        Visit(u) ==
            IF u.ret = FAILURE THEN u
            ELSE Called(u, CallFunc(func, Get(u, node, "data"), u.args))
        \* lines 673-677
        Right(u) ==
            IF u.ret = FAILURE THEN u
            ELSE forEachNode(u, Get(u, node, "right"), func)
    IN  IF node = Null THEN [t EXCEPT !.ret = SUCCESS]
        ELSE Right(Visit(forEachNode(t, Get(t, node, "left"), func)))

\* the machine state's args is the object args points at
forEachRBTree(t, func, args) ==
    IF t.tree = Null THEN [t EXCEPT !.args = args, !.ret = FAILURE]
    ELSE IF t.root = Null THEN [t EXCEPT !.args = args, !.ret = SUCCESS]
    ELSE forEachNode([t EXCEPT !.args = args], t.root, func)

\* the machine state's args is the Vector returned; ret is FAILURE when NULL
\* is returned instead
findMaxNormVectorInTree(t) ==
    LET Return(u) ==
            IF u.ret = FAILURE THEN [u EXCEPT !.args = EmptyVector]
            ELSE [u EXCEPT !.ret = SUCCESS]
    IN  Return(forEachRBTree(t, "copyIfNormIsLarger", EmptyVector))

RECURSIVE findSuccessorLoop(_, _)
findSuccessorLoop(t, child) ==
    IF child # Null /\ Get(t, child, "left") # Null
    THEN findSuccessorLoop(t, Get(t, child, "left"))
    ELSE child

findSuccessor(t, node) == findSuccessorLoop(t, Get(t, node, "right"))

\* a slip: the right subtree is not walked
RECURSIVE freeNodeLeftOnly(_, _)
freeNodeLeftOnly(t, toFree) ==
    LET Release(s) ==
            [s EXCEPT !.freed = Append(@, Get(s, toFree, "data")),
                      !.heap[toFree] = FreeCell]
    IN  IF toFree = Null THEN t
        ELSE IF ~t.heap[toFree].alloc THEN [t EXCEPT !.fault = TRUE]
        ELSE Release(freeNodeLeftOnly(t, Get(t, toFree, "left")))

\* tree->freeFunc(data) is logged in freed; free(toFree) releases the cell
RECURSIVE freeNode(_, _)
freeNode(t, toFree) ==
    LET Right(s) == freeNode(s, Get(s, toFree, "right"))
        Release(s) ==
            [s EXCEPT !.freed = Append(@, Get(s, toFree, "data")),
                      !.heap[toFree] = FreeCell]
    IN  IF toFree = Null THEN t
        ELSE IF ~t.heap[toFree].alloc THEN [t EXCEPT !.fault = TRUE]
        ELSE Release(Right(freeNode(t, Get(t, toFree, "left"))))

getSingleChild(t, node) ==
    IF Get(t, node, "left") = Null /\ Get(t, node, "right") # Null
    THEN Get(t, node, "right")
    ELSE IF Get(t, node, "left") # Null /\ Get(t, node, "right") = Null
    THEN Get(t, node, "left")
    ELSE Null

\* -------------------------------------------------------------- deletion engine
\* a slip: the case of lowNode being a child of highNode is not told apart
switchNodesNoAdjacentCase(t, highNode, lowNode) ==
    LET highParent == Get(t, highNode, "parent")
        highRight == Get(t, highNode, "right")
        highLeft == Get(t, highNode, "left")
        highCol == Get(t, highNode, "color")
        highSide == getSide(t, highNode)
        lowSide == getSide(t, lowNode)
        TakeChildren(s) ==
            connectNodes(
                connectNodes(s, highNode, Get(s, lowNode, "left"), LEFT),
                highNode, Get(s, lowNode, "right"), RIGHT)
        Swap(s) ==
            connectNodes(
                connectNodes(
                    connectNodes(s, Get(s, lowNode, "parent"),
                                 highNode, lowSide),
                    lowNode, highRight, RIGHT),
                lowNode, highLeft, LEFT)
        Hang(s) == connectNodes(s, highParent, lowNode, highSide)
        Colors(s) ==
            SetF(SetF(s, highNode, "color", Get(s, lowNode, "color")),
                 lowNode, "color", highCol)
        Note(s) ==
            Logged(s, [fn |-> "switchNodes", highNode |-> highNode,
                       lowNode |-> lowNode, pre |-> Snap(t), post |-> Snap(s)])
    IN  Note(Colors(Hang(Swap(TakeChildren(t)))))

switchNodes(t, highNode, lowNode) ==
    LET highParent == Get(t, highNode, "parent")
        highRight == Get(t, highNode, "right")
        highLeft == Get(t, highNode, "left")
        highCol == Get(t, highNode, "color")
        highSide == getSide(t, highNode)
        lowSide == getSide(t, lowNode)
        \* lines 422-423
        TakeChildren(s) ==
            connectNodes(
                connectNodes(s, highNode, Get(s, lowNode, "left"), LEFT),
                highNode, Get(s, lowNode, "right"), RIGHT)
        \* lines 424-441
        Swap(s) ==
            IF Get(s, lowNode, "parent") # highNode
            THEN connectNodes(
                     connectNodes(
                         connectNodes(s, Get(s, lowNode, "parent"),
                                      highNode, lowSide),
                         lowNode, highRight, RIGHT),
                     lowNode, highLeft, LEFT)
            ELSE IF lowSide = LEFT
            THEN connectNodes(connectNodes(s, lowNode, highNode, lowSide),
                              lowNode, highRight, RIGHT)
            ELSE connectNodes(connectNodes(s, lowNode, highNode, lowSide),
                              lowNode, highLeft, LEFT)
        \* line 442
        Hang(s) == connectNodes(s, highParent, lowNode, highSide)
        \* lines 443-444
        Colors(s) ==
            SetF(SetF(s, highNode, "color", Get(s, lowNode, "color")),
                 lowNode, "color", highCol)
        Note(s) ==
            Logged(s, [fn |-> "switchNodes", highNode |-> highNode,
                       lowNode |-> lowNode, pre |-> Snap(t), post |-> Snap(s)])
    IN  Note(Colors(Hang(Swap(TakeChildren(t)))))

closeRedNephewDB(t, siblingP, childSide) ==
    LET s == Deref(t, siblingP)
        l == Get(t, Deref(t, siblingP), "left")
        r == Get(t, Deref(t, siblingP), "right")
    IN  IF childSide = LEFT /\ l # Null /\ Get(t, l, "color") = RED
        THEN rotate(SetF(SetF(t, l, "color", BLACK), s, "color", RED), l, s)
        ELSE IF childSide = RIGHT /\ r # Null /\ Get(t, r, "color") = RED
        THEN rotate(SetF(SetF(t, r, "color", BLACK), s, "color", RED), r, s)
        ELSE t

\* a slip: the far nephew keeps its color
farRedNephewDBNoRecolor(t, parentP, siblingP, childSide) ==
    LET s == Deref(t, siblingP)
        p == Deref(t, parentP)
        l == Get(t, Deref(t, siblingP), "left")
        r == Get(t, Deref(t, siblingP), "right")
        temp == Get(t, Deref(t, siblingP), "color")
    IN  IF s = Null THEN [t EXCEPT !.fault = TRUE]
        ELSE IF (childSide = LEFT /\ r # Null /\ Get(t, r, "color") = RED)
             \/ (childSide = RIGHT /\ l # Null /\ Get(t, l, "color") = RED)
        THEN rotate(SetF(SetF(t, s, "color", Get(t, p, "color")),
                         p, "color", temp),
                    s, p)
        ELSE t

\* a slip: the nephew on the side of the deficiency is the one recolored
farRedNephewDBCloseNephew(t, parentP, siblingP, childSide) ==
    LET s == Deref(t, siblingP)
        p == Deref(t, parentP)
        l == Get(t, Deref(t, siblingP), "left")
        r == Get(t, Deref(t, siblingP), "right")
        temp == Get(t, Deref(t, siblingP), "color")
        Nephew(u) ==
            IF childSide = RIGHT THEN SetF(u, r, "color", BLACK)
            ELSE SetF(u, l, "color", BLACK)
        Note(u) ==
            Logged(u, [fn |-> "farRedNephewDB", parent |-> p, sibling |-> s,
                       childSide |-> childSide,
                       pre |-> Snap(t), post |-> Snap(u)])
    IN  IF s = Null THEN [t EXCEPT !.fault = TRUE]
        ELSE IF (childSide = LEFT /\ r # Null /\ Get(t, r, "color") = RED)
             \/ (childSide = RIGHT /\ l # Null /\ Get(t, l, "color") = RED)
        THEN rotate(Note(Nephew(SetF(SetF(t, s, "color", Get(t, p, "color")),
                                     p, "color", temp))),
                    s, p)
        ELSE t

farRedNephewDB(t, parentP, siblingP, childSide) ==
    LET s == Deref(t, siblingP)
        p == Deref(t, parentP)
        l == Get(t, Deref(t, siblingP), "left")
        r == Get(t, Deref(t, siblingP), "right")
        temp == Get(t, Deref(t, siblingP), "color")
        \* lines 484-491
        Nephew(u) ==
            IF r # Null /\ Get(u, r, "color") = RED
            THEN SetF(u, r, "color", BLACK)
            ELSE SetF(u, l, "color", BLACK)
        \* the call, with the tree as the recoloring left it
        Note(u) ==
            Logged(u, [fn |-> "farRedNephewDB", parent |-> p, sibling |-> s,
                       childSide |-> childSide,
                       pre |-> Snap(t), post |-> Snap(u)])
    IN  IF s = Null THEN [t EXCEPT !.fault = TRUE]
        ELSE IF (childSide = LEFT /\ r # Null /\ Get(t, r, "color") = RED)
             \/ (childSide = RIGHT /\ l # Null /\ Get(t, l, "color") = RED)
        THEN rotate(Note(Nephew(SetF(SetF(t, s, "color", Get(t, p, "color")),
                                     p, "color", temp))),
                    s, p)
        ELSE t

\* lines 522-524: what blackSiblingDB does unless it returned at line 518
blackSiblingTail(t, parentP, siblingP, childP, childSide) ==
    LET \* line 523
        Again(u) ==
            Store(u, siblingP,
                  IF Get(u, Deref(u, parentP), "left") = Deref(u, childP)
                  THEN Get(u, Deref(u, parentP), "right")
                  ELSE Get(u, Deref(u, parentP), "left"))
    IN  farRedNephewDB(Again(closeRedNephewDB(t, siblingP, childSide)),
                       parentP, siblingP, childSide)

RECURSIVE solveDB(_, _, _, _)
\* a slip: the deficiency is handed on at the same place, not one level up
blackSiblingDBNoClimb(t, parentP, siblingP, childP, childSide) ==
    LET s == Deref(t, siblingP)
        p == Deref(t, parentP)
        l == Get(t, Deref(t, siblingP), "left")
        r == Get(t, Deref(t, siblingP), "right")
        Absorb(u) ==
            IF Get(u, p, "color") = RED
            THEN blackSiblingTail(SetF(u, p, "color", BLACK),
                                  parentP, siblingP, childP, childSide)
            ELSE solveDB(u, parentP, childP, childSide)
    IN  IF (l = Null \/ Get(t, l, "color") = BLACK)
           /\ (r = Null \/ Get(t, r, "color") = BLACK)
        THEN Absorb(SetF(t, s, "color", RED))
        ELSE blackSiblingTail(t, parentP, siblingP, childP, childSide)

blackSiblingDB(t, parentP, siblingP, childP, childSide) ==
    LET s == Deref(t, siblingP)
        p == Deref(t, parentP)
        l == Get(t, Deref(t, siblingP), "left")
        r == Get(t, Deref(t, siblingP), "right")
        \* lines 511-519
        Absorb(u) ==
            IF Get(u, p, "color") = RED
            THEN blackSiblingTail(SetF(u, p, "color", BLACK),
                                  parentP, siblingP, childP, childSide)
            ELSE solveDB(u, Field(p, "parent"), parentP, getSide(u, p))
    IN  IF (l = Null \/ Get(t, l, "color") = BLACK)
           /\ (r = Null \/ Get(t, r, "color") = BLACK)
        THEN Absorb(SetF(t, s, "color", RED))
        ELSE blackSiblingTail(t, parentP, siblingP, childP, childSide)

\* a slip: the sibling is looked for on the side of the deficient child
solveDBSameSide(t, parentP, childP, childSide) ==
    LET p == Deref(t, parentP)
        siblingP == IF Get(t, Deref(t, parentP), "left") = Deref(t, childP)
                    THEN Field(Deref(t, parentP), "left")
                    ELSE Field(Deref(t, parentP), "right")
        Retry(u) ==
            solveDB(rotate(u, Deref(u, siblingP), Deref(u, parentP)),
                    parentP, childP, childSide)
        Body(u) ==
            IF p = Null THEN u
            ELSE IF Deref(u, siblingP) = Null THEN [u EXCEPT !.fault = TRUE]
            ELSE IF Get(u, Deref(u, siblingP), "color") = RED
            THEN Retry(SetF(SetF(u, Deref(u, siblingP), "color", BLACK),
                            p, "color", RED))
            ELSE blackSiblingDB(u, parentP, siblingP, childP, childSide)
    IN  IF Len(t.calls) >= MaxCalls THEN [t EXCEPT !.cut = TRUE]
        ELSE Body(Logged(t, [fn |-> "solveDB", parent |-> p,
                             child |-> Deref(t, childP),
                             childSide |-> childSide,
                             sibling |-> Deref(t, siblingP),
                             pre |-> Snap(t)]))

\* a slip: line 544 is missing, the sibling is not rotated above the parent
solveDBUnrotated(t, parentP, childP, childSide) ==
    LET p == Deref(t, parentP)
        siblingP == IF Get(t, Deref(t, parentP), "left") = Deref(t, childP)
                    THEN Field(Deref(t, parentP), "right")
                    ELSE Field(Deref(t, parentP), "left")
        Retry(u) == solveDB(u, parentP, childP, childSide)
        Body(u) ==
            IF p = Null THEN u
            ELSE IF Deref(u, siblingP) = Null THEN [u EXCEPT !.fault = TRUE]
            ELSE IF Get(u, Deref(u, siblingP), "color") = RED
            THEN Retry(SetF(SetF(u, Deref(u, siblingP), "color", BLACK),
                            p, "color", RED))
            ELSE blackSiblingDB(u, parentP, siblingP, childP, childSide)
    IN  IF Len(t.calls) >= MaxCalls THEN [t EXCEPT !.cut = TRUE]
        ELSE Body(Logged(t, [fn |-> "solveDB", parent |-> p,
                             child |-> Deref(t, childP),
                             childSide |-> childSide,
                             sibling |-> Deref(t, siblingP),
                             pre |-> Snap(t)]))

solveDB(t, parentP, childP, childSide) ==
    LET p == Deref(t, parentP)
        siblingP == IF Get(t, Deref(t, parentP), "left") = Deref(t, childP)
                    THEN Field(Deref(t, parentP), "right")
                    ELSE Field(Deref(t, parentP), "left")
        \* lines 544-545
        Retry(u) ==
            solveDB(rotate(u, Deref(u, siblingP), Deref(u, parentP)),
                    parentP, childP, childSide)
        Body(u) ==
            IF p = Null THEN u
            ELSE IF Deref(u, siblingP) = Null THEN [u EXCEPT !.fault = TRUE]
            ELSE IF Get(u, Deref(u, siblingP), "color") = RED
            THEN Retry(SetF(SetF(u, Deref(u, siblingP), "color", BLACK),
                            p, "color", RED))
            ELSE blackSiblingDB(u, parentP, siblingP, childP, childSide)
    IN  IF Len(t.calls) >= MaxCalls THEN [t EXCEPT !.cut = TRUE]
        ELSE Body(Logged(t, [fn |-> "solveDB", parent |-> p,
                             child |-> Deref(t, childP),
                             childSide |-> childSide,
                             sibling |-> Deref(t, siblingP),
                             pre |-> Snap(t)]))

\* a slip: a node with two children is not switched with its successor
placeBeforeDeletionNoSuccessor(t, toSwitch, childPtr) ==
    LET Switch(u) ==
            IF Deref(u, childPtr) # Null
            THEN switchNodes(u, toSwitch, Deref(u, childPtr))
            ELSE u
        Done(u) == [u EXCEPT !.ret = SUCCESS]
    IN  IF toSwitch = Null THEN [t EXCEPT !.ret = FAILURE]
        ELSE Done(Switch(Store(t, childPtr, getSingleChild(t, toSwitch))))

\* the machine state's ret is the value placeBeforeDeletion returns
placeBeforeDeletion(t, toSwitch, childPtr) ==
    LET \* lines 567-575
        Switch(u) ==
            IF Deref(u, childPtr) # Null
            THEN switchNodes(u, toSwitch, Deref(u, childPtr))
            ELSE IF Get(u, toSwitch, "right") # Null
                    /\ Get(u, toSwitch, "left") # Null
            THEN switchNodes(u, toSwitch, findSuccessor(u, toSwitch))
            ELSE u
        Done(u) == [u EXCEPT !.ret = SUCCESS]
    IN  IF toSwitch = Null THEN [t EXCEPT !.ret = FAILURE]
        ELSE Done(Switch(Store(t, childPtr, getSingleChild(t, toSwitch))))

\* a slip: the node that takes the place of the deleted one is hung on the
\* other side of the parent
balanceTreeOtherSide(t, parentP, toDeleteP, childP, toDeleteSide) ==
    LET Unlink(u, node) ==
            Logged(connectNode(u, node, Deref(u, parentP), 0 - toDeleteSide),
                   [fn |-> "splice", toDelete |-> Deref(u, toDeleteP),
                    node |-> node, parent |-> Deref(u, parentP),
                    side |-> toDeleteSide, pre |-> Snap(u),
                    post |-> Snap(connectNode(u, node, Deref(u, parentP),
                                              0 - toDeleteSide))])
        Splice(u) == Unlink(u, Deref(u, childP))
        Fix(u) ==
            IF Deref(u, childP) # Null
               /\ Get(u, Deref(u, childP), "color") = RED
            THEN SetF(u, Deref(u, childP), "color", BLACK)
            ELSE solveDB(u, parentP, childP, toDeleteSide)
    IN  IF Get(t, Deref(t, toDeleteP), "color") = RED
        THEN Unlink(t, Null)
        ELSE Fix(Splice(Store(t, childP,
                              getSingleChild(t, Deref(t, toDeleteP)))))

balanceTree(t, parentP, toDeleteP, childP, toDeleteSide) ==
    LET \* the connectNode call of line 591 or 596, which takes the node to
        \* delete out of the tree, with its record
        Unlink(u, node) ==
            Logged(connectNode(u, node, Deref(u, parentP), toDeleteSide),
                   [fn |-> "splice", toDelete |-> Deref(u, toDeleteP),
                    node |-> node, parent |-> Deref(u, parentP),
                    side |-> toDeleteSide, pre |-> Snap(u),
                    post |-> Snap(connectNode(u, node, Deref(u, parentP),
                                              toDeleteSide))])
        \* line 596
        Splice(u) == Unlink(u, Deref(u, childP))
        \* lines 597-604
        Fix(u) ==
            IF Deref(u, childP) # Null
               /\ Get(u, Deref(u, childP), "color") = RED
            THEN SetF(u, Deref(u, childP), "color", BLACK)
            ELSE solveDB(u, parentP, childP, toDeleteSide)
    IN  IF Get(t, Deref(t, toDeleteP), "color") = RED
        THEN Unlink(t, Null)
        ELSE Fix(Splice(Store(t, childP,
                              getSingleChild(t, Deref(t, toDeleteP)))))

\* a slip: size is decremented before the lookup has said anything
deleteFromRBTreeEagerCount(t, data) ==
    LET Found(r) == [r.t EXCEPT !.toDelete = r.node, !.child = Null]
        Find(u) == Found(findNode(u, data))
        Place(u) == placeBeforeDeletion(u, u.toDelete, Local("child"))
        Balance(u) ==
            balanceTree([u EXCEPT !.parent = Get(u, u.toDelete, "parent")],
                        Local("parent"), Local("toDelete"), Local("child"),
                        getSide(u, u.toDelete))
        Detach(u) ==
            SetF(SetF(u, u.toDelete, "right", Null), u.toDelete, "left", Null)
        Free(u) == freeNode(u, u.toDelete)
        Done(u) == [u EXCEPT !.ret = SUCCESS]
        Rest(u) ==
            IF u.ret = FAILURE THEN u
            ELSE Done(Free(Detach(Balance(u))))
    IN  IF t.tree = Null THEN [t EXCEPT !.ret = FAILURE]
        ELSE Rest(Place(Find([t EXCEPT !.size = @ - 1])))

\* a slip: line 629 is missing, so freeNode walks on into what the node
\* still points at
deleteFromRBTreeNoDetach(t, data) ==
    LET Found(r) == [r.t EXCEPT !.toDelete = r.node, !.child = Null]
        Find(u) == Found(findNode(u, data))
        Place(u) == placeBeforeDeletion(u, u.toDelete, Local("child"))
        Balance(u) ==
            balanceTree([u EXCEPT !.parent = Get(u, u.toDelete, "parent")],
                        Local("parent"), Local("toDelete"), Local("child"),
                        getSide(u, u.toDelete))
        Free(u) == freeNode(u, u.toDelete)
        Done(u) == [u EXCEPT !.size = @ - 1, !.ret = SUCCESS]
        Rest(u) ==
            IF u.ret = FAILURE THEN u
            ELSE Done(Free(Balance(u)))
    IN  IF t.tree = Null THEN [t EXCEPT !.ret = FAILURE]
        ELSE Rest(Place(Find(t)))

deleteFromRBTree(t, data) ==
    LET \* lines 620-621
        Found(r) == [r.t EXCEPT !.toDelete = r.node, !.child = Null]
        Find(u) == Found(findNode(u, data))
        \* line 622
        Place(u) == placeBeforeDeletion(u, u.toDelete, Local("child"))
        \* lines 626-628
        Balance(u) ==
            balanceTree([u EXCEPT !.parent = Get(u, u.toDelete, "parent")],
                        Local("parent"), Local("toDelete"), Local("child"),
                        getSide(u, u.toDelete))
        \* line 629
        Detach(u) ==
            SetF(SetF(u, u.toDelete, "right", Null), u.toDelete, "left", Null)
        \* lines 630-632
        Free(u) == freeNode(u, u.toDelete)
        Done(u) == [u EXCEPT !.size = @ - 1, !.ret = SUCCESS]
        Rest(u) ==
            IF u.ret = FAILURE THEN u
            ELSE Done(Free(Detach(Balance(u))))
    IN  IF t.tree = Null THEN [t EXCEPT !.ret = FAILURE]
        ELSE Rest(Place(Find(t)))

\* free(*tree) releases the RBTree and *tree = NULL leaves the caller
\* without one; what is left is shown as no root and no items
freeRBTree(t) ==
    LET Gone(u) == [u EXCEPT !.tree = Null, !.root = Null, !.size = NO_ITEMS]
    IN  IF t.tree = Null THEN [t EXCEPT !.fault = TRUE]
        ELSE Gone(freeNode(t, t.root))

\* ------------------------------------------------------------------- the calls
\* the machine state a public call starts in: the tree and the heap as the
\* last call left them, fresh locals, and an empty log of tree->freeFunc calls
\* the RBTree* of the one tree there is: an address past the Node cells
TheTree == Cardinality(Addr) + 1

Enter ==
    [tree |-> TheTree, root |-> root, size |-> size, heap |-> heap,
     ret |-> FAILURE, freed |-> <<>>, fault |-> FALSE,
     toDelete |-> Null, child |-> Null, parent |-> Null,
     calls |-> <<>>, compared |-> <<>>, cut |-> FALSE,
     args |-> Null, seen |-> <<>>]

Range(s) == {s[i] : i \in DOMAIN s}

\* what the call leaves behind; gained is what the tree now owns in addition
Leave(t, name, gained) ==
    /\ root' = t.root
    /\ size' = t.size
    /\ heap' = t.heap
    /\ op' = name
    /\ ret' = t.ret
    /\ owned' = ((owned \cup (IF t.ret = SUCCESS THEN gained ELSE {}))
                    \ Range(t.freed))
    /\ fault' = (t.fault
                 \/ \E i \in DOMAIN t.freed : t.freed[i] \notin owned
                 \/ Cardinality(Range(t.freed)) # Len(t.freed))

Count(s, k) == Cardinality({i \in DOMAIN s : s[i] = k})

\* the caller still has its tree: freeRBTree has not run
Live == op # "freeRBTree"

NoTally ==
    [inserted |-> {}, deleted |-> {}, destructs |-> [k \in Keys |-> 0],
     failed |-> FALSE, order |-> <<>>]

Init ==
    /\ root = Null
    /\ size = NO_ITEMS
    /\ heap = [a \in Addr |-> FreeCell]
    /\ op = "newRBTree"
    /\ ret = SUCCESS
    /\ owned = {}
    /\ fault = FALSE
    /\ tally = NoTally

Insert(data) ==
    /\ Live
    /\ ~fault
    /\ Leave(insertToRBTree(Enter, data), "insert", {data})
    /\ UNCHANGED tally

Delete(data) ==
    /\ Live
    /\ ~fault
    /\ Leave(deleteFromRBTree(Enter, data), "delete", {})
    /\ UNCHANGED tally

\* the last call on a tree; the caller counts what its destructor is given
FreeTree ==
    /\ Live
    /\ ~fault
    /\ LET Call(t) ==
               /\ Leave(t, "freeRBTree", {})
               /\ tally' = [tally EXCEPT
                                !.destructs =
                                    [k \in Keys |-> Count(t.freed, k)]]
       IN  Call(freeRBTree(Enter))

Next ==
    \/ \E data \in Keys : Insert(data)
    \/ \E data \in Keys : Delete(data)
    \/ FreeTree

Spec == Init /\ [][Next]_vars

\* ------------------------------------------------------- observing the tree
\* the tree as the caller finds it between two calls
Tree == Enter

\* no path of a tree over the cells is longer than this
Fuel == Spare + 1

RECURSIVE Closure(_, _)
Closure(t, S) ==
    LET kids == {Get(t, a, "left") : a \in S} \cup {Get(t, a, "right") : a \in S}
        N == S \cup (kids \ {Null})
    IN  IF N = S THEN S ELSE Closure(t, N)

\* the nodes reachable from the root over child links
Reach(t) == IF t.root = Null THEN {} ELSE Closure(t, {t.root})

Payloads(t) == {Get(t, a, "data") : a \in Reach(t)}

RECURSIVE Subtree(_, _, _)
Subtree(t, a, fuel) ==
    IF a = Null \/ fuel = 0 THEN {}
    ELSE {a} \cup Subtree(t, Get(t, a, "left"), fuel - 1)
             \cup Subtree(t, Get(t, a, "right"), fuel - 1)

RECURSIVE InOrder(_, _, _)
InOrder(t, a, fuel) ==
    IF a = Null \/ fuel = 0 THEN <<>>
    ELSE InOrder(t, Get(t, a, "left"), fuel - 1)
         \o <<Get(t, a, "data")>>
         \o InOrder(t, Get(t, a, "right"), fuel - 1)

\* the numbers of BLACK nodes on the paths from a down to an absent child
RECURSIVE PathBlacks(_, _, _)
PathBlacks(t, a, fuel) ==
    IF a = Null THEN {0}
    ELSE IF fuel = 0 THEN {0 - 1}
    ELSE LET b == IF Get(t, a, "color") = BLACK THEN 1 ELSE 0
         IN  {c + b : c \in PathBlacks(t, Get(t, a, "left"), fuel - 1)
                          \cup PathBlacks(t, Get(t, a, "right"), fuel - 1)}

Ascending(s) == \A i \in 1..(Len(s) - 1) : s[i] < s[i + 1]

Completed == op \in {"insert", "delete"}

\* ------------------------------------------------------- single assignments
\* The restructuring functions once more, one assignment to a link (a parent,
\* left or right field, or tree->root) at a time: each gives the machine
\* states the function passes through, from the one it starts in to the one
\* its last assignment to a link leaves.
Last(steps) == steps[Len(steps)]

\* the machine state in which the tree is as in the record snap of a call
At(snap) == [Enter EXCEPT !.root = snap.root, !.heap = snap.heap]

\* lines 388-406
connectNodesSteps(t, parent, child, side) ==
    LET Down(s) ==
            IF parent = Null THEN [s EXCEPT !.root = child]
            ELSE IF side = LEFT THEN SetF(s, parent, "left", child)
            ELSE SetF(s, parent, "right", child)
        Back(s) == SetF(s, child, "parent", parent)
    IN  IF child # Null THEN <<Down(t), Back(Down(t))>> ELSE <<Down(t)>>

\* lines 82-97
connectNodeSteps(t, node, parent, side) ==
    LET Back(s) == SetF(s, node, "parent", parent)
        Down(s) ==
            IF parent = Null THEN [s EXCEPT !.root = node]
            ELSE IF side = LEFT THEN SetF(s, parent, "left", node)
            ELSE SetF(s, parent, "right", node)
    IN  IF node # Null THEN <<Back(t), Down(Back(t))>> ELSE <<Down(t)>>

rotateSteps(t, child, parent) ==
    LET childSide == getSide(t, child)
        gParent == Get(t, parent, "parent")
        parentSide == getSide(t, parent)
        \* lines 132-133
        AtRoot(s) == [s EXCEPT !.root = child]
        NoParent(s) == SetF(s, child, "parent", Null)
        \* lines 138-146
        Up(s) == SetF(s, child, "parent", gParent)
        Down(s) ==
            IF parentSide = LEFT THEN SetF(s, gParent, "left", child)
            ELSE SetF(s, gParent, "right", child)
        Lift(steps) ==
            IF gParent = Null
            THEN steps \o <<AtRoot(Last(steps)), NoParent(AtRoot(Last(steps)))>>
            ELSE steps \o <<Up(Last(steps)), Down(Up(Last(steps)))>>
        \* lines 150 and 155
        Inner(steps) ==
            steps \o (IF childSide = LEFT
                      THEN connectNodesSteps(Last(steps), parent,
                               Get(Last(steps), child, "right"), LEFT)
                      ELSE connectNodesSteps(Last(steps), parent,
                               Get(Last(steps), child, "left"), RIGHT))
        \* lines 151 and 156
        Below(steps) ==
            steps \o (IF childSide = LEFT
                      THEN connectNodesSteps(Last(steps), child, parent, RIGHT)
                      ELSE connectNodesSteps(Last(steps), child, parent, LEFT))
    IN  Below(Inner(Lift(<<t>>)))

switchNodesSteps(t, highNode, lowNode) ==
    LET highParent == Get(t, highNode, "parent")
        highRight == Get(t, highNode, "right")
        highLeft == Get(t, highNode, "left")
        highSide == getSide(t, highNode)
        lowSide == getSide(t, lowNode)
        \* a connectNodes call on the state the steps before it have left
        Call(steps, parent, child, side) ==
            steps \o connectNodesSteps(Last(steps), parent, child, side)
        \* line 422
        TakeLeft(steps) ==
            Call(steps, highNode, Get(Last(steps), lowNode, "left"), LEFT)
        \* line 423
        TakeRight(steps) ==
            Call(steps, highNode, Get(Last(steps), lowNode, "right"), RIGHT)
        \* line 426
        GoDown(steps) ==
            Call(steps, Get(Last(steps), lowNode, "parent"), highNode, lowSide)
        \* line 432
        GoBelow(steps) == Call(steps, lowNode, highNode, lowSide)
        \* lines 427 and 435
        GiveRight(steps) == Call(steps, lowNode, highRight, RIGHT)
        \* lines 428 and 439
        GiveLeft(steps) == Call(steps, lowNode, highLeft, LEFT)
        \* lines 424-441
        Swap(steps) ==
            IF Get(Last(steps), lowNode, "parent") # highNode
            THEN GiveLeft(GiveRight(GoDown(steps)))
            ELSE IF lowSide = LEFT THEN GiveRight(GoBelow(steps))
            ELSE GiveLeft(GoBelow(steps))
        \* line 442
        Hang(steps) == Call(steps, highParent, lowNode, highSide)
    IN  Hang(Swap(TakeRight(TakeLeft(<<t>>))))

\* the states passed through by the call recorded as e
StepsOf(e) ==
    IF e.fn = "switchNodes" THEN switchNodesSteps(At(e.pre), e.highNode, e.lowNode)
    ELSE IF e.fn = "rotate" THEN rotateSteps(At(e.pre), e.child, e.parent)
    ELSE <<At(e.pre)>> \o connectNodeSteps(At(e.pre), e.node, e.parent, e.side)

\* ---------------------------------------------------------------- the claims

\* C1: after every completed insert or delete, all paths from any node down
\* to an absent child pass through the same number of BLACK nodes.
C1_EqualBlackHeight ==
    Completed =>
        \A n \in Reach(Tree) : Cardinality(PathBlacks(Tree, n, Fuel)) = 1

C1_Witness ==
    /\ op = "delete" /\ ret = SUCCESS
    /\ size = 7
    /\ PathBlacks(Tree, root, Fuel) = {3}

\* C2: after every completed insert or delete, no RED node has a RED child.
C2_NoRedRed ==
    Completed =>
        \A n \in Reach(Tree) :
            heap[n].color = RED =>
                /\ Get(Tree, heap[n].left, "color") = BLACK
                /\ Get(Tree, heap[n].right, "color") = BLACK

C2_Witness ==
    /\ op = "insert" /\ ret = SUCCESS
    /\ \E n \in Reach(Tree) :
          /\ heap[n].color = RED
          /\ heap[n].left # Null /\ heap[n].right # Null
          /\ \E m \in Reach(Tree) : heap[m].color = RED /\ heap[m].parent
                 \in {heap[n].left, heap[n].right}

\* C3: after every completed insert or delete, the root of a non-empty tree
\* is BLACK.
C3_RootBlack ==
    Completed => (root # Null => heap[root].color = BLACK)

C3_Witness ==
    /\ op = "delete" /\ ret = SUCCESS
    /\ root # Null /\ heap[root].color = BLACK
    /\ Payloads(Tree) = {1}

\* C4: after every completed operation the tree is in binary-search order:
\* everything left of a node is smaller, everything right of it greater, and
\* the in-order traversal is strictly ascending.
C4_SearchOrder ==
    Completed =>
        /\ \A n \in Reach(Tree) :
              /\ \A m \in Subtree(Tree, heap[n].left, Fuel) :
                    compFunc(heap[m].data, heap[n].data) < EQUAL
              /\ \A m \in Subtree(Tree, heap[n].right, Fuel) :
                    compFunc(heap[m].data, heap[n].data) > EQUAL
        /\ Ascending(InOrder(Tree, root, Fuel))
        /\ Len(InOrder(Tree, root, Fuel)) = Cardinality(Reach(Tree))

C4_Witness ==
    /\ op = "delete" /\ ret = SUCCESS
    /\ InOrder(Tree, root, Fuel) = <<2, 3, 4, 5, 6, 7>>

\* the whole tree structure a caller can observe: size, root, and every
\* cell's links, color and payload
Structure(t) == <<t.size, t.root, t.heap>>

\* C5: on every reachable tree, deleting a payload x that is present returns
\* success and removes exactly that one node: the payloads become the former
\* ones minus x, x is no longer contained, every other one still is, and
\* size drops by one.
C5_DeletePresent ==
    \A x \in Payloads(Tree) :
        LET t == deleteFromRBTree(Tree, x)
        IN  /\ t.ret = SUCCESS
            /\ ~t.fault
            /\ Payloads(t) = Payloads(Tree) \ {x}
            /\ Cardinality(Reach(t)) = Cardinality(Reach(Tree)) - 1
            /\ RBTreeContains(t, x).ret = 0
            /\ \A y \in Payloads(Tree) \ {x} : RBTreeContains(t, y).ret = 1
            /\ t.size = size - 1

C5_Witness ==
    /\ op = "delete" /\ ret = SUCCESS
    /\ Payloads(Tree) = {2, 3, 4, 5, 6, 7}
    /\ size = 6
    /\ RBTreeContains(Tree, 1).ret = 0

\* C6: on every reachable tree, inserting a payload x that compares equal to
\* none in it returns success; the payloads become the former ones plus x, x
\* is contained, every former one still is, and size grows by one.
C6_InsertAbsent ==
    \A x \in Keys \ Payloads(Tree) :
        LET t == insertToRBTree(Tree, x)
        IN  /\ t.ret = SUCCESS
            /\ ~t.fault
            /\ Payloads(t) = Payloads(Tree) \cup {x}
            /\ Cardinality(Reach(t)) = Cardinality(Reach(Tree)) + 1
            /\ RBTreeContains(t, x).ret = 1
            /\ \A y \in Payloads(Tree) : RBTreeContains(t, y).ret = 1
            /\ t.size = size + 1

C6_Witness ==
    /\ op = "insert" /\ ret = SUCCESS
    /\ size = 5
    /\ Payloads(Tree) = {2, 4, 6, 8, 9}
    /\ RBTreeContains(Tree, 9).ret = 1

\* C7: inserting a payload that compares equal to one in the tree returns
\* failure and changes nothing: size, root and every cell are as before.
C7_InsertDuplicate ==
    \A x \in Payloads(Tree) :
        LET t == insertToRBTree(Tree, x)
        IN  /\ t.ret = FAILURE
            /\ ~t.fault
            /\ Structure(t) = Structure(Tree)

C7_Witness ==
    /\ op = "insert" /\ ret = FAILURE
    /\ size = 4
    /\ ~heap[Spare].alloc

\* C8: deleting a payload that is not in the tree, the empty tree included,
\* returns failure, changes nothing of size, root and cells, and calls the
\* destructor for nothing.
C8_DeleteAbsent ==
    \A x \in Keys \ Payloads(Tree) :
        LET t == deleteFromRBTree(Tree, x)
        IN  /\ t.ret = FAILURE
            /\ ~t.fault
            /\ Structure(t) = Structure(Tree)
            /\ t.freed = <<>>

C8_Witness ==
    /\ op = "delete" /\ ret = FAILURE
    /\ size = 3
    /\ owned = Payloads(Tree)

\* C9: after every completed public operation, size is the number of nodes
\* reachable from the root, and the root is absent exactly when size is 0.
C9_SizeCountsNodes ==
    /\ size = Cardinality(Reach(Tree))
    /\ (root = Null) <=> (size = NO_ITEMS)
    /\ \A a \in Reach(Tree) : heap[a].alloc

C9_Witness ==
    /\ op = "delete" /\ ret = SUCCESS
    /\ size = 0 /\ root = Null
    /\ Reach(Tree) = {}

\* C11: over any sequence of inserts and deletes ended by freeRBTree, the
\* destructor is called exactly once on every payload inserted with success
\* and on nothing else: the payloads not destructed yet are those in the
\* tree, a delete destructs the deleted payload alone, a rejected insert
\* destructs nothing, and freeRBTree destructs each payload still in the
\* tree once, after which none is left.
C11_DestructOnce ==
    /\ ~fault
    /\ Live => owned = Payloads(Tree)
    /\ ~Live => owned = {} /\ \A a \in Addr : ~heap[a].alloc
    /\ \A x \in Payloads(Tree) :
          /\ deleteFromRBTree(Tree, x).freed = <<x>>
          /\ insertToRBTree(Tree, x).freed = <<>>
    /\ LET t == freeRBTree(Tree)
       IN  /\ ~t.fault
           /\ Range(t.freed) = Payloads(Tree)
           /\ Len(t.freed) = Cardinality(Payloads(Tree))

C11_Witness ==
    /\ op = "freeRBTree"
    /\ owned = {}
    /\ \A k \in Keys : tally.destructs[k] = IF k \in {1, 3, 4, 6, 8} THEN 1 ELSE 0

\* what a public operation that takes a payload does when called with the
\* tree pointer given (the tree or NULL) and the payload given
PayloadCall(fn, treeArg, data) ==
    LET In == [Tree EXCEPT !.tree = treeArg]
    IN  IF fn = "insert" THEN insertToRBTree(In, data)
        ELSE IF fn = "delete" THEN deleteFromRBTree(In, data)
        ELSE RBTreeContains(In, data)

\* C13: insertToRBTree, deleteFromRBTree and RBTreeContains, called with a
\* null tree or a null payload on any reachable tree, report failure and
\* leave the tree as it was, and the null payload is never handed to the
\* comparator.
C13_NullArgumentsRejected ==
    \A fn \in {"insert", "delete", "contains"} :
        \A treeArg \in {Null, TheTree} :
            \A data \in Keys \cup {Null} :
                (treeArg = Null \/ data = Null) =>
                    LET t == PayloadCall(fn, treeArg, data)
                    IN  /\ t.ret = FAILURE
                        /\ Structure(t) = Structure(Tree)
                        /\ t.freed = <<>>
                        /\ \A i \in DOMAIN t.compared :
                              t.compared[i][1] # Null

\* the calls of fn in the record of calls of t, in order
Entries(t, fn) == SelectSeq(t.calls, LAMBDA e : e.fn = fn)

\* how far below the root of the tree snap the node n hangs; an absent node
\* counts as one above the root
RECURSIVE DepthFrom(_, _, _)
DepthFrom(snap, n, fuel) ==
    IF n = Null THEN 0 - 1
    ELSE IF snap.heap[n].parent = Null \/ fuel = 0 THEN 0
    ELSE 1 + DepthFrom(snap, snap.heap[n].parent, fuel - 1)

Depth(snap, n) == DepthFrom(snap, n, Fuel)

\* the insertion fix-up moves two levels up from one entry to the next
UpdateColorsClimbs(t) ==
    LET es == Entries(t, "updateColors")
    IN  \A i \in 1..(Len(es) - 1) :
            /\ es[i + 1].node = es[i].pre.heap[es[i].pre.heap[es[i].node].parent].parent
            /\ Depth(es[i + 1].pre, es[i + 1].node)
                   = Depth(es[i].pre, es[i].node) - 2

\* from one entry of the deletion fix-up to the next, either the sibling was
\* RED and the next entry is the retry at the same place, now with a BLACK
\* sibling, and is the last one; or the deficiency has moved one level up
SolveDBClimbs(t) ==
    LET es == Entries(t, "solveDB")
    IN  \A i \in 1..(Len(es) - 1) :
            IF es[i].pre.heap[es[i].sibling].color = RED
            THEN /\ es[i + 1].parent = es[i].parent
                 /\ es[i + 1].child = es[i].child
                 /\ es[i + 1].pre.heap[es[i + 1].sibling].color = BLACK
                 /\ i + 1 = Len(es)
            ELSE /\ es[i + 1].child = es[i].parent
                 /\ es[i + 1].parent = es[i].pre.heap[es[i].parent].parent
                 /\ Depth(es[i + 1].pre, es[i + 1].parent)
                        = Depth(es[i].pre, es[i].parent) - 1

\* C16: every insertToRBTree and deleteFromRBTree call on a reachable tree
\* ends: no recursion is cut, updateColors goes two levels up at each step
\* and solveDB one level up, but for one retry after a red-sibling rotation,
\* so both reach the root at the latest.
C16_FixUpsTerminate ==
    \A x \in Keys :
        /\ LET t == insertToRBTree(Tree, x)
           IN  /\ ~t.cut /\ ~t.fault
               /\ UpdateColorsClimbs(t)
               /\ \A i \in DOMAIN Entries(t, "updateColors") :
                     LET e == Entries(t, "updateColors")[i]
                     IN  2 * (Len(Entries(t, "updateColors")) - i)
                             <= Depth(e.pre, e.node)
        /\ LET t == deleteFromRBTree(Tree, x)
           IN  /\ ~t.cut /\ ~t.fault
               /\ SolveDBClimbs(t)
               /\ Len(Entries(t, "solveDB")) <= Cardinality(Reach(Tree)) + 1

\* a delete has just made all nodes BLACK, so that the next delete of a leaf
\* climbs to the root, and there is a tree an insert climbs to the root of
C16_Witness ==
    /\ op = "delete" /\ ret = SUCCESS
    /\ \E x \in Payloads(Tree) :
          Len(Entries(deleteFromRBTree(Tree, x), "solveDB")) >= 3
    /\ \E x \in Keys \ Payloads(Tree) :
          Len(Entries(insertToRBTree(Tree, x), "updateColors")) >= 2

\* the child of n on the given side in the tree snap
ChildOn(snap, n, side) ==
    IF side = LEFT THEN snap.heap[n].left ELSE snap.heap[n].right

\* C17: whenever solveDB is entered with a present parent during a delete on
\* a reachable tree, the deficient child hangs on childSide of the parent
\* and the sibling solveDB selects is a present node, the parent's child on
\* the other side; no color is read from an absent sibling.
C17_SiblingPresent ==
    \A x \in Payloads(Tree) :
        LET t == deleteFromRBTree(Tree, x)
            es == Entries(t, "solveDB")
        IN  /\ ~t.fault
            /\ \A i \in DOMAIN es :
                  es[i].parent # Null =>
                      /\ es[i].childSide \in {LEFT, RIGHT}
                      /\ es[i].child
                             = ChildOn(es[i].pre, es[i].parent, es[i].childSide)
                      /\ es[i].sibling
                             = ChildOn(es[i].pre, es[i].parent,
                                       0 - es[i].childSide)
                      /\ es[i].sibling # Null
                      /\ es[i].sibling # es[i].child
                      /\ es[i].pre.heap[es[i].sibling].alloc

\* a delete has left a tree in which one delete meets a RED sibling and
\* retries, and another hands the deficiency one level up
C17_Witness ==
    /\ op = "delete" /\ ret = SUCCESS
    /\ \E x \in Payloads(Tree) :
          LET es == Entries(deleteFromRBTree(Tree, x), "solveDB")
          IN  /\ Len(es) >= 2
              /\ es[1].child = Null
              /\ es[1].pre.heap[es[1].sibling].color = RED
    /\ \E x \in Payloads(Tree) :
          LET es == Entries(deleteFromRBTree(Tree, x), "solveDB")
          IN  /\ Len(es) >= 2
              /\ es[1].pre.heap[es[1].sibling].color = BLACK
              /\ es[2].child = es[1].parent
              /\ es[2].parent # Null

\* C18: whenever farRedNephewDB takes its step during a delete on a
\* reachable tree, the nephew it recolors BLACK is the far one, the
\* sibling's RED child on the side away from the deficiency, on either side
\* and also right after the pre-rotation of closeRedNephewDB; the close
\* nephew keeps its color.
C18_FarNephewRecolored ==
    \A x \in Payloads(Tree) :
        LET t == deleteFromRBTree(Tree, x)
            es == Entries(t, "farRedNephewDB")
        IN  /\ ~t.fault
            /\ \A i \in DOMAIN es :
                  LET e == es[i]
                      far == ChildOn(e.pre, e.sibling, 0 - e.childSide)
                      close == ChildOn(e.pre, e.sibling, e.childSide)
                  IN  /\ e.childSide \in {LEFT, RIGHT}
                      /\ e.sibling = ChildOn(e.pre, e.parent, 0 - e.childSide)
                      /\ far # Null
                      /\ e.pre.heap[far].color = RED
                      /\ e.post.heap[far].color = BLACK
                      /\ close # Null =>
                             e.post.heap[close].color = e.pre.heap[close].color
                      /\ \A a \in Addr \ {far, e.sibling, e.parent} :
                             e.post.heap[a] = e.pre.heap[a]

\* the calls of t in which farRedNephewDB takes its step right after the
\* rotation of closeRedNephewDB
AfterPreRotation(t) ==
    {i \in 2..Len(t.calls) :
        /\ t.calls[i].fn = "farRedNephewDB"
        /\ t.calls[i - 1].fn = "rotate"
        /\ t.calls[i - 1].child = t.calls[i].sibling}

\* a delete has left a tree in which the step is taken for a deficiency on
\* the left, for one on the right, and after a pre-rotation
C18_Witness ==
    /\ op = "delete" /\ ret = SUCCESS
    /\ \A side \in {LEFT, RIGHT} :
          \E x \in Payloads(Tree) :
              LET es == Entries(deleteFromRBTree(Tree, x), "farRedNephewDB")
              IN  Len(es) = 1 /\ es[1].childSide = side
    /\ \E x \in Payloads(Tree) :
          AfterPreRotation(deleteFromRBTree(Tree, x)) # {}

\* the calls of switchNodes of t in which highNode has two children and
\* lowNode, its successor, is its right child
AdjacentSwitches(t) ==
    LET es == Entries(t, "switchNodes")
    IN  {es[i] : i \in {j \in DOMAIN es :
                           /\ es[j].pre.heap[es[j].highNode].left # Null
                           /\ es[j].pre.heap[es[j].highNode].right
                                  = es[j].lowNode}}

\* C19: when the node to delete has two children and its successor is its
\* right child, switchNodes leaves the successor where the node was (same
\* parent or the root, same left child, the node's color) with the node as
\* its right child, and the node with the successor's children and color;
\* no node is its own parent or child, no node is lost and nothing else
\* changes.
C19_SwitchWithRightChild ==
    \A x \in Payloads(Tree) :
        \A e \in AdjacentSwitches(deleteFromRBTree(Tree, x)) :
            LET high == e.highNode
                low == e.lowNode
                was == e.pre.heap
                now == e.post.heap
                up == was[high].parent
            IN  /\ now[low].parent = up
                /\ IF up = Null THEN e.post.root = low
                   ELSE /\ e.post.root = e.pre.root
                        /\ (was[up].left = high) => (now[up].left = low)
                        /\ (was[up].right = high) => (now[up].right = low)
                /\ now[low].left = was[high].left
                /\ now[was[high].left].parent = low
                /\ now[low].color = was[high].color
                /\ now[low].right = high
                /\ now[high].parent = low
                /\ now[high].left = was[low].left
                /\ now[high].right = was[low].right
                /\ was[low].right # Null => now[was[low].right].parent = high
                /\ now[high].color = was[low].color
                /\ \A a \in Addr :
                      /\ now[a].parent # a
                      /\ now[a].left # a
                      /\ now[a].right # a
                      /\ now[a].data = was[a].data
                /\ Reach(e.post) = Reach(e.pre)
                /\ \A a \in Reach(e.pre) \ {high, low} :
                      /\ now[a].color = was[a].color
                      /\ a # up => now[a].left = was[a].left
                      /\ a # up => now[a].right = was[a].right
                      /\ a \notin {was[high].left, was[low].right}
                             => now[a].parent = was[a].parent

\* a delete has left a tree in which the root and another node each have
\* two children and their successor as right child
C19_Witness ==
    /\ op = "delete" /\ ret = SUCCESS
    /\ \E x \in Payloads(Tree) :
          \E e \in AdjacentSwitches(deleteFromRBTree(Tree, x)) :
              e.pre.heap[e.highNode].parent = Null
    /\ \E x \in Payloads(Tree) :
          \E e \in AdjacentSwitches(deleteFromRBTree(Tree, x)) :
              /\ e.pre.heap[e.highNode].parent # Null
              /\ e.pre.heap[e.lowNode].right # Null

\* what C20 says of one call of rotate
RotationAsSpecified(e) ==
    LET was == e.pre.heap
        now == e.post.heap
        up == was[e.parent].parent
    IN  /\ e.child # Null /\ e.parent # Null
        /\ was[e.child].parent = e.parent
        /\ was[e.parent].left = e.child \/ was[e.parent].right = e.child
        /\ InOrder(e.post, e.post.root, Fuel) = InOrder(e.pre, e.pre.root, Fuel)
        /\ Len(InOrder(e.pre, e.pre.root, Fuel)) = Cardinality(Reach(e.pre))
        /\ now[e.parent].parent = e.child
        /\ (was[e.parent].left = e.child) => (now[e.child].right = e.parent)
        /\ (was[e.parent].right = e.child) => (now[e.child].left = e.parent)
        /\ now[e.child].parent = up
        /\ IF up = Null THEN e.post.root = e.child
           ELSE /\ e.post.root = e.pre.root
                /\ (was[up].left = e.parent) => (now[up].left = e.child)
                /\ (was[up].right = e.parent) => (now[up].right = e.child)
                /\ now[up].left = e.child \/ now[up].right = e.child

\* C20: every rotation performed during an insert or a delete on a reachable
\* tree is called with child a direct child of parent; it leaves the
\* in-order sequence of the payloads of the whole tree as it was, makes child
\* the parent of parent, and links the former grandparent, or the tree root,
\* to child.
C20_RotationsKeepOrder ==
    \A x \in Keys :
        /\ \A i \in DOMAIN Entries(insertToRBTree(Tree, x), "rotate") :
              RotationAsSpecified(Entries(insertToRBTree(Tree, x), "rotate")[i])
        /\ \A i \in DOMAIN Entries(deleteFromRBTree(Tree, x), "rotate") :
              RotationAsSpecified(Entries(deleteFromRBTree(Tree, x), "rotate")[i])

\* a delete has left a tree in which an insert rotates twice, once of them at
\* the root, and a delete rotates below the root
C20_Witness ==
    /\ op = "delete" /\ ret = SUCCESS
    /\ \E x \in Keys :
          LET es == Entries(insertToRBTree(Tree, x), "rotate")
          IN  /\ Len(es) = 2
              /\ es[2].pre.heap[es[2].parent].parent = Null
    /\ \E x \in Keys :
          LET es == Entries(deleteFromRBTree(Tree, x), "rotate")
          IN  /\ Len(es) >= 1
              /\ es[1].pre.heap[es[1].parent].parent # Null

\* the links of the tree t over the nodes R: a node, a side, and the child
\* that hangs there
LinksOf(t, R) ==
    {l \in R \X {LEFT, RIGHT} : ChildOn(t, l[1], l[2]) # Null}

\* the node without a parent that the parent links lead to from n, or Null
\* when they have not ended after fuel steps
RECURSIVE TopOf(_, _, _)
TopOf(t, n, fuel) ==
    IF t.heap[n].parent = Null THEN n
    ELSE IF fuel = 0 THEN Null
    ELSE TopOf(t, t.heap[n].parent, fuel - 1)

\* the graph over the nodes R, those reachable from the root of t, is a
\* tree: the root has no parent, every child names the node it hangs under
\* as its parent, every node but the root is the left or the right child of
\* its parent and not both, there is one link for each node but the root (so
\* that no node hangs under two), and the parent links of every node end at
\* the root
WellFormedOver(t, R) ==
    /\ t.root # Null => t.heap[t.root].parent = Null
    /\ \A n \in R :
          /\ t.heap[n].alloc
          /\ t.heap[n].left # Null =>
                /\ t.heap[t.heap[n].left].parent = n
                /\ t.heap[n].left # t.heap[n].right
          /\ t.heap[n].right # Null => t.heap[t.heap[n].right].parent = n
          /\ n # t.root =>
                /\ t.heap[n].parent \in R
                /\ \/ t.heap[t.heap[n].parent].left = n
                   \/ t.heap[t.heap[n].parent].right = n
          /\ TopOf(t, n, Cardinality(R)) = t.root
    /\ R # {} => Cardinality(LinksOf(t, R)) = Cardinality(R) - 1

WellFormed(t) == WellFormedOver(t, Reach(t))

\* C22: the tree is well formed in every state a public operation has left,
\* and every insertToRBTree, deleteFromRBTree, RBTreeContains and freeRBTree
\* call on it, successful or not, leaves a well-formed tree again: the
\* root's parent link is absent, c.parent = n for every present child c of a
\* node n, and every other node is the left or the right child of its parent
\* and of no other node, with no cycle.
C22_WellFormedTree ==
    /\ WellFormed(Tree)
    /\ Live =>
          /\ WellFormed(freeRBTree(Tree))
          /\ \A x \in Keys :
                /\ WellFormed(insertToRBTree(Tree, x))
                /\ WellFormed(deleteFromRBTree(Tree, x))
                /\ WellFormed(RBTreeContains(Tree, x))

\* a delete has left a tree of three levels or more in which one delete
\* switches the root with a successor that is not its child, another delete
\* rotates, and an insert rotates
C22_Witness ==
    /\ op = "delete" /\ ret = SUCCESS
    /\ \E n \in Reach(Tree) : Depth(Tree, n) >= 2
    /\ \E x \in Payloads(Tree) :
          \E i \in DOMAIN Entries(deleteFromRBTree(Tree, x), "switchNodes") :
              LET e == Entries(deleteFromRBTree(Tree, x), "switchNodes")[i]
              IN  /\ e.highNode = root
                  /\ e.pre.heap[e.lowNode].parent # e.highNode
                  /\ e.pre.heap[e.highNode].left # Null
    /\ \E x \in Payloads(Tree) :
          Entries(deleteFromRBTree(Tree, x), "rotate") # <<>>
    /\ \E x \in Keys \ Payloads(Tree) :
          Entries(insertToRBTree(Tree, x), "rotate") # <<>>

\* the calls that restructure the tree during the call that has left t: the
\* calls of switchNodes and rotate and the connectNode call of balanceTree
Restructurings(t) ==
    {t.calls[i] : i \in {j \in DOMAIN t.calls :
                            t.calls[j].fn \in {"switchNodes", "rotate", "splice"}}}

\* the nodes that are still in the tree while the call e runs: those in the
\* tree when it starts, but for the node that the splice takes out
StillIn(e) ==
    Reach(At(e.pre)) \ (IF e.fn = "splice" THEN {e.toDelete} ELSE {})

\* in u each parent link of a node of N agrees with the child link that
\* corresponds to it, and each child link with the parent link
LinksAgree(u, N) ==
    \A n \in N :
        /\ u.heap[n].left # Null => u.heap[u.heap[n].left].parent = n
        /\ u.heap[n].right # Null => u.heap[u.heap[n].right].parent = n
        /\ IF u.heap[n].parent = Null THEN u.root = n
           ELSE \/ u.heap[u.heap[n].parent].left = n
                \/ u.heap[u.heap[n].parent].right = n

\* u has the links of the tree snap
SameLinks(u, snap) ==
    /\ u.root = snap.root
    /\ \A a \in Addr :
          /\ u.heap[a].parent = snap.heap[a].parent
          /\ u.heap[a].left = snap.heap[a].left
          /\ u.heap[a].right = snap.heap[a].right

\* C23 as stated: in every delete on a reachable tree, after each single
\* assignment to a link inside switchNodes, inside the splice of balanceTree
\* and inside rotate, every node still in the tree is reachable from the
\* root and each parent link agrees with the corresponding child link.
C23_EveryAssignmentConsistent ==
    \A x \in Payloads(Tree) :
        \A e \in Restructurings(deleteFromRBTree(Tree, x)) :
            \A k \in 2..Len(StepsOf(e)) :
                /\ StillIn(e) \subseteq Reach(StepsOf(e)[k])
                /\ LinksAgree(StepsOf(e)[k], StillIn(e))

\* C23 as amended: in every delete on a reachable tree, when a call of
\* switchNodes, the splice of balanceTree or a call of rotate has made the
\* last of its assignments, the graph is a well-formed tree again in which
\* exactly the nodes still in the tree are reachable from the root and each
\* parent link agrees with the corresponding child link; the assignments
\* made one at a time end in the links the call leaves.
C23_EveryStepConsistent ==
    \A x \in Payloads(Tree) :
        \A e \in Restructurings(deleteFromRBTree(Tree, x)) :
            /\ SameLinks(Last(StepsOf(e)), e.post)
            /\ Reach(At(e.post)) = StillIn(e)
            /\ LinksAgree(At(e.post), StillIn(e))
            /\ WellFormed(At(e.post))

\* a delete has left a tree in which one delete switches a node with a
\* successor that is not its child and then splices in the child the
\* successor had, and another delete rotates twice
C23_Witness ==
    /\ op = "delete" /\ ret = SUCCESS
    /\ \E x \in Payloads(Tree) :
          LET es == Restructurings(deleteFromRBTree(Tree, x))
          IN  /\ \E e \in es : /\ e.fn = "switchNodes"
                               /\ e.pre.heap[e.lowNode].parent # e.highNode
                               /\ e.pre.heap[e.highNode].left # Null
              /\ \E e \in es : e.fn = "splice" /\ e.node # Null
    /\ \E x \in Payloads(Tree) :
          Len(Entries(deleteFromRBTree(Tree, x), "rotate")) >= 2

\* ------------------------------------------------------------- sorted input
\* A client that fills the tree from sorted input, ascending from 1 or
\* descending from MaxDeep, and then deletes a few of the payloads it has
\* inserted.  Its trees are deep enough for a double black to move up before
\* it meets a RED sibling.
MaxDeepDeletes == 4

DeepKeys == 1..MaxDeep

DeepInsert(data) ==
    /\ ~fault
    /\ tally.deleted = {}
    /\ \/ tally.inserted = 1..(data - 1)
       \/ tally.inserted = (data + 1)..MaxDeep
    /\ LET Call(t) ==
               /\ Leave(t, "insert", {data})
               /\ tally' = [tally EXCEPT !.inserted = @ \cup {data}]
       IN  Call(insertToRBTree(Enter, data))

DeepDelete(data) ==
    /\ ~fault
    /\ data \in tally.inserted \ tally.deleted
    /\ Cardinality(tally.deleted) < MaxDeepDeletes
    /\ LET Call(t) ==
               /\ Leave(t, "delete", {})
               /\ tally' = [tally EXCEPT !.deleted = @ \cup {data}]
       IN  Call(deleteFromRBTree(Enter, data))

DeepNext ==
    \/ \E data \in DeepKeys : DeepInsert(data)
    \/ \E data \in DeepKeys : DeepDelete(data)

SpecDeep == Init /\ [][DeepNext]_vars

\* the positions in the calls of solveDB of t at which the sibling was RED
RedSiblingSteps(t) ==
    {i \in DOMAIN Entries(t, "solveDB") :
        LET e == Entries(t, "solveDB")[i]
        IN  /\ e.parent # Null /\ e.sibling # Null
            /\ e.pre.heap[e.sibling].color = RED}

\* what C21 says of the red-sibling step taken at entry i and of the retry
\* that follows it at entry i + 1
RedSiblingStepAsSpecified(t, i) ==
    LET es == Entries(t, "solveDB")
        e == es[i]
        was == e.pre.heap
    IN  /\ i + 1 \in DOMAIN es
        /\ LET r == es[i + 1]
               now == r.pre.heap
           IN  \* the step: recolored and rotated
               /\ now[e.sibling].color = BLACK
               /\ now[e.parent].color = RED
               /\ now[e.parent].parent = e.sibling
               /\ ChildOn(r.pre, e.sibling, e.childSide) = e.parent
               /\ now[e.sibling].parent = was[e.parent].parent
               \* the same deficient position under the same parent
               /\ r.parent = e.parent
               /\ r.child = e.child
               /\ r.childSide = e.childSide
               /\ ChildOn(r.pre, r.parent, r.childSide) = r.child
               /\ r.child # Null => now[r.child].parent = r.parent
               \* the new sibling: present, BLACK, the old sibling's child on
               \* the side of the deficiency
               /\ r.sibling # Null
               /\ r.sibling \notin {e.sibling, r.child}
               /\ r.sibling = ChildOn(r.pre, r.parent, 0 - r.childSide)
               /\ r.sibling = ChildOn(e.pre, e.sibling, e.childSide)
               /\ now[r.sibling].alloc
               /\ now[r.sibling].parent = r.parent
               /\ now[r.sibling].color = BLACK
               /\ i + 1 \notin RedSiblingSteps(t)

\* C21: in every delete on a reachable tree, each call of solveDB that meets
\* a RED sibling recolors the sibling BLACK and the parent RED and rotates
\* the sibling above the parent, and the retry that follows is entered with
\* the same parent and the same deficient child on the same side, and with a
\* sibling that is present and BLACK, so that the retry does not take the
\* red-sibling branch again.
C21_RetryMeetsBlackSibling ==
    \A x \in Payloads(Tree) :
        LET t == deleteFromRBTree(Tree, x)
        IN  /\ ~t.fault /\ ~t.cut
            /\ \A i \in RedSiblingSteps(t) : RedSiblingStepAsSpecified(t, i)

\* the sorted-input client has deleted a payload and left a tree in which,
\* on one and the same side, one delete meets a RED sibling at once and
\* another meets it after the double black has moved up, where the parent
\* of the deficient node is read from that node's own parent link
C21_Witness ==
    /\ op = "delete" /\ ret = SUCCESS
    /\ tally.deleted # {}
    /\ \E side \in {LEFT, RIGHT} :
          /\ \E x \in Payloads(Tree) :
                LET t == deleteFromRBTree(Tree, x)
                IN  /\ 1 \in RedSiblingSteps(t)
                    /\ Entries(t, "solveDB")[1].childSide = side
                    /\ Entries(t, "solveDB")[1].child = Null
          /\ \E x \in Payloads(Tree) :
                LET t == deleteFromRBTree(Tree, x)
                IN  \E i \in RedSiblingSteps(t) :
                        /\ i >= 2
                        /\ Entries(t, "solveDB")[i].childSide = side
                        /\ Entries(t, "solveDB")[i].child # Null

\* ---------------------------------------------------------- the round trip
\* A client that inserts unique payloads, then deletes every one of them, in
\* any order, and counts what its destructor is called with.
MaxRoundTrip == 7

RoundTripKeys == 1..MaxRoundTrip

RoundTripInsert(data) ==
    /\ ~fault
    /\ tally.deleted = {}
    /\ data \notin tally.inserted
    /\ LET Call(t) ==
               /\ Leave(t, "insert", {data})
               /\ tally' = [tally EXCEPT !.inserted = @ \cup {data},
                                         !.failed = @ \/ t.ret # SUCCESS]
       IN  Call(insertToRBTree(Enter, data))

RoundTripDelete(data) ==
    /\ ~fault
    /\ data \in tally.inserted \ tally.deleted
    /\ LET Call(t) ==
               /\ Leave(t, "delete", {})
               /\ tally' = [tally EXCEPT
                                !.deleted = @ \cup {data},
                                !.destructs =
                                    [k \in Keys |-> @[k] + Count(t.freed, k)],
                                !.failed = @ \/ t.ret # SUCCESS]
       IN  Call(deleteFromRBTree(Enter, data))

RoundTripNext ==
    \/ \E data \in RoundTripKeys : RoundTripInsert(data)
    \/ \E data \in RoundTripKeys : RoundTripDelete(data)

SpecRoundTrip == Init /\ [][RoundTripNext]_vars

\* C10: once N unique payloads have been inserted and all N deleted again, in
\* any orders, the tree is empty (size 0, no root), every call returned
\* success, and the destructor ran exactly once on each of the N payloads.
C10_RoundTrip ==
    (tally.deleted # {} /\ tally.deleted = tally.inserted) =>
        /\ size = NO_ITEMS
        /\ root = Null
        /\ ~tally.failed
        /\ ~fault
        /\ \A k \in Keys :
              tally.destructs[k] = IF k \in tally.inserted THEN 1 ELSE 0

C10_Witness ==
    /\ tally.inserted = RoundTripKeys
    /\ tally.deleted = RoundTripKeys
    /\ op = "delete" /\ ret = SUCCESS
    /\ root = Null

\* ------------------------------------------------------------ the traversals
\* A client that inserts and deletes a few payloads and traverses the tree
\* now and then, with a callback that fails on some payloads or with the
\* concatenating one, and keeps what the traversal did.
MaxForEach == 5

ForEachKeys == 1..MaxForEach

\* what forEachRBTree can be called with
ForEachCalls ==
    [func : {"failOn"}, args : [failing : SUBSET ForEachKeys]]
        \cup [func : {"concatenate"}, args : {[text |-> <<>>]}]

ForEach(call) ==
    /\ Live
    /\ ~fault
    /\ LET Call(t) ==
               /\ Leave(t, "forEach", {})
               /\ tally' = [call |-> call, seen |-> t.seen, args |-> t.args]
       IN  Call(forEachRBTree(Enter, call.func, call.args))

\* the client drops what it kept of a traversal when it changes the tree
ForEachInsert(data) ==
    /\ Live
    /\ ~fault
    /\ Leave(insertToRBTree(Enter, data), "insert", {data})
    /\ tally' = NoTally

ForEachDelete(data) ==
    /\ Live
    /\ ~fault
    /\ Leave(deleteFromRBTree(Enter, data), "delete", {})
    /\ tally' = NoTally

ForEachNext ==
    \/ \E data \in ForEachKeys : ForEachInsert(data)
    \/ \E data \in ForEachKeys : ForEachDelete(data)
    \/ \E call \in ForEachCalls : ForEach(call)

SpecForEach == Init /\ [][ForEachNext]_vars

\* the payloads of S in ascending comparator order
RECURSIVE SortedSeq(_)
SortedSeq(S) ==
    IF S = {} THEN <<>>
    ELSE LET least == CHOOSE x \in S : \A y \in S : compFunc(x, y) <= EQUAL
         IN  <<least>> \o SortedSeq(S \ {least})

\* where the callback of the call fails first on the sequence s; 0 if nowhere
FirstFailure(call, s) ==
    LET fails == {i \in DOMAIN s :
                     call.func = "failOn" /\ s[i] \in call.args.failing}
    IN  IF fails = {} THEN 0
        ELSE CHOOSE i \in fails : \A j \in fails : i <= j

\* C12: forEachRBTree hands the payloads to the callback in ascending
\* comparator order, each once, up to and including the first one the
\* callback fails on and none after it; it returns success exactly when no
\* callback failed (on an empty tree: success and no call).
C12_ForEachAscendingPrefix ==
    op = "forEach" =>
        LET order == SortedSeq(Payloads(Tree))
            stop == FirstFailure(tally.call, order)
        IN  /\ tally.seen = IF stop = 0 THEN order ELSE SubSeq(order, 1, stop)
            /\ (ret = SUCCESS) <=> (stop = 0)
            /\ ret \in {SUCCESS, FAILURE}
            /\ tally.call.func = "concatenate" => tally.args.text = order

C12_Witness ==
    /\ op = "forEach" /\ ret = FAILURE
    /\ Payloads(Tree) = {1, 2, 3, 4, 5}
    /\ tally.call.func = "failOn" /\ tally.call.args.failing = {3, 5}
    /\ tally.seen = <<1, 2, 3>>

\* ------------------------------------------------------------- the scenario
\* A client that inserts the integers 10, 20, 30, ... each once, in any
\* order, and keeps the order it inserted them in.
MaxScenario == 5

ScenarioKeys == {10 * k : k \in 1..MaxScenario}

ScenarioInsert(data) ==
    /\ ~fault
    /\ \A i \in DOMAIN tally.order : tally.order[i] # data
    /\ LET Call(t) ==
               /\ Leave(t, "insert", {data})
               /\ tally' = [tally EXCEPT !.order = Append(@, data),
                                         !.failed = @ \/ t.ret # SUCCESS]
       IN  Call(insertToRBTree(Enter, data))

ScenarioNext == \E data \in ScenarioKeys : ScenarioInsert(data)

SpecScenario == Init /\ [][ScenarioNext]_vars

\* C14: after 10, 20, 30 have been inserted in that order into an empty
\* tree, the tree is exactly: root 20 BLACK, its left child 10 RED, its
\* right child 30 RED, both without children; in order it reads 10, 20, 30.
C14_TenTwentyThirty ==
    tally.order = <<10, 20, 30>> =>
        /\ ~tally.failed /\ ~fault
        /\ size = 3
        /\ root # Null
        /\ Get(Tree, root, "data") = 20
        /\ Get(Tree, root, "color") = BLACK
        /\ Get(Tree, root, "parent") = Null
        /\ \E l, r \in Addr :
              /\ l # r /\ l # root /\ r # root
              /\ heap[root].left = l /\ heap[root].right = r
              /\ heap[l] = [NewCell(10) EXCEPT !.color = RED, !.parent = root]
              /\ heap[r] = [NewCell(30) EXCEPT !.color = RED, !.parent = root]
        /\ InOrder(Tree, root, Fuel) = <<10, 20, 30>>

C14_Witness ==
    /\ tally.order = <<10, 20, 30>>
    /\ op = "insert" /\ ret = SUCCESS
    /\ Payloads(Tree) = {10, 20, 30}

\* -------------------------------------------------------- the tree of Vectors
\* A client that keeps Vectors in the tree and asks for the one of largest
\* norm now and then.
MaxVectors == 5

VectorKeys == 1..MaxVectors

FindMaxNorm ==
    /\ Live
    /\ ~fault
    /\ LET Call(t) ==
               /\ Leave(t, "findMaxNormVectorInTree", {})
               /\ tally' = [vec |-> t.args]
       IN  Call(findMaxNormVectorInTree(Enter))

VectorsNext ==
    \/ \E data \in VectorKeys : ForEachInsert(data)
    \/ \E data \in VectorKeys : ForEachDelete(data)
    \/ FindMaxNorm

SpecVectors == Init /\ [][VectorsNext]_vars

\* the comparator of the tree orders the payloads as vectorCompare1By1 orders
\* the Vectors they point at
VectorsInOrder ==
    \A a, b \in DOMAIN Vectors :
        LET c == vectorCompare1By1(VectorAt(a), VectorAt(b))
        IN  /\ (c < 0) <=> (compFunc(a, b) < EQUAL)
            /\ (c = 0) <=> (compFunc(a, b) = EQUAL)

\* vec holds a copy of the Vector the payload p points at
CopyOf(vec, p) ==
    /\ vec.held
    /\ vec.len = VectorAt(p).len
    /\ vec.vector = VectorAt(p).vector

\* C15: copyIfNormIsLarger copies pVector into pMaxVector whenever pMaxVector
\* holds no array yet or the norm of pVector is the greater one, also when
\* the norm of pVector is zero; so findMaxNormVectorInTree on a tree that is
\* not empty returns a copy of a Vector of the tree.
C15_MaxNormVectorCopied ==
    (op = "findMaxNormVectorInTree" /\ root # Null) =>
        /\ \A p \in VectorKeys :
              \A pMax \in {EmptyVector} \cup {VectorAt(q) : q \in VectorKeys} :
                  (~pMax.held
                      \/ getNorm(VectorAt(p), VectorAt(p).len)
                             > getNorm(pMax, pMax.len)) =>
                      CopyOf(copyIfNormIsLarger(p, pMax).args, p)
        /\ ret = SUCCESS
        /\ \E p \in Payloads(Tree) : CopyOf(tally.vec, p)

====
